---- MODULE Spec2Model ----
(***************************************************************************)
(* VaultFeed (src/app.py): the two JSON endpoints of the reader proxy.     *)
(*                                                                         *)
(*   news_feed      GET /api/news     fetch + normalise an RSS/Atom feed   *)
(*   fetch_article  GET /api/article  two-stage readable-content extractor *)
(*                                                                         *)
(* Python strings are sequences of one-character strings, so that strip,   *)
(* split, slicing and length are computed as the interpreter computes      *)
(* them; a character that has no escape in a string literal is written by *)
(* its code point ("U+00A0", "U+1D7CE").  What the third-party libraries   *)
(* hand back (the parsed feed, the newspaper Article, the readability      *)
(* fragment) is the environment's choice and is drawn from small sets of   *)
(* representative values.  Each handler shares nothing with other          *)
(* requests, so requests are served one after the other.                   *)
(***************************************************************************)
EXTENDS Integers, Sequences, FiniteSets, TLC

VARIABLES
    pc,            \* position of the handler currently serving a request
    args,          \* request.args: the query parameters of that request
    resp,          \* the (status, JSON body) the handler returned
    fetches,       \* outbound fetches made while serving the request, in order
    feed_url,      \* news_feed locals, by their names in the source
    limit,
    parsed,
    url,           \* fetch_article locals, by their names in the source
    text,
    html_content,
    title,
    authors,
    publish_date,
    top_image,
    article,       \* the newspaper Article after parse()
    soup,          \* the cleaned readability fragment
    readable_title,
    fallback_text,
    primary        \* the locals as the primary stage left them

vars == <<pc, args, resp, fetches, feed_url, limit, parsed, url, text, html_content, title,
          authors, publish_date, top_image, article, soup, readable_title,
          fallback_text, primary>>

feedVars == <<feed_url, limit, parsed>>

articleVars == <<url, text, html_content, title, authors, publish_date,
                 top_image, article, soup, readable_title, fallback_text,
                 primary>>

(***************************************************************************)
(* Bounds of the model.                                                    *)
(***************************************************************************)
MaxEntries == 52     \* longest feed handed back by the feed parser
MaxRot == 1          \* rotations of the entry pattern a feed may start at

(***************************************************************************)
(* Constants of the program.                                               *)
(***************************************************************************)
DEFAULT_LIMIT == 20
MAX_LIMIT == 50
DESC_MAX == 2000
MIN_TEXT == 100

(***************************************************************************)
(* Python values.                                                          *)
(***************************************************************************)
NoneVal == <<"<None>">>        \* None, where an attribute may hold it
Absent == <<"<absent>">>       \* a query parameter that was not supplied
NoObj == [x \in {} |-> <<>>]   \* an object without any of the attributes read

Min(a, b) == IF a < b THEN a ELSE b
Max(a, b) == IF a > b THEN a ELSE b

Rep(c, n) == [i \in 1..n |-> c]

\* F(x) with x evaluated once: a local variable of the source
Bind(x, F(_)) == CHOOSE r \in {F(v) : v \in {x}} : TRUE

Truthy(v) == v # <<>> /\ v # NoneVal
NonEmpty(l) == Len(l) > 0      \* truth value of a list
Or(a, b) == IF Truthy(a) THEN a ELSE b
HasAttr(obj, name) == name \in DOMAIN obj
GetAttr(obj, name, default) == IF HasAttr(obj, name) THEN obj[name] ELSE default

\* s[:n] with Python's meaning of a negative bound
SliceTo(s, n) ==
    IF n >= 0 THEN SubSeq(s, 1, Min(n, Len(s)))
    ELSE SubSeq(s, 1, Max(0, Len(s) + n))

\* the characters str.strip() takes for whitespace (str.isspace)
WHITESPACE ==
    {" ", "\t", "\n", "\r", "\f", "U+000B", "U+001C", "U+001D", "U+001E", "U+001F",
     "U+0085", "U+00A0", "U+1680", "U+2000", "U+2001", "U+2002", "U+2003", "U+2004",
     "U+2005", "U+2006", "U+2007", "U+2008", "U+2009", "U+200A", "U+2028", "U+2029",
     "U+202F", "U+205F", "U+3000"}

\* the characters int() takes for whitespace: the separators U+001C..U+001F
\* are whitespace to str.strip() but not to int()
INT_WHITESPACE == WHITESPACE \ {"U+001C", "U+001D", "U+001E", "U+001F"}

IsSpace(c) == c \in WHITESPACE

RECURSIVE LStrip(_, _)
LStrip(s, ws) == IF s # <<>> /\ Head(s) \in ws THEN LStrip(Tail(s), ws) ELSE s

RECURSIVE RStrip(_, _)
RStrip(s, ws) ==
    IF s # <<>> /\ s[Len(s)] \in ws THEN RStrip(SubSeq(s, 1, Len(s) - 1), ws) ELSE s

\* str.strip()
Strip(s) == Bind(s, LAMBDA v : RStrip(LStrip(v, WHITESPACE), WHITESPACE))

(***************************************************************************)
(* int(request.args.get("limit", 20)): optional surrounding whitespace, an *)
(* optional sign, then decimal digits in groups separated by single        *)
(* underscores, at most INT_MAX_STR_DIGITS digits in all; anything else    *)
(* raises ValueError.  A decimal digit is any character of the Unicode     *)
(* category Nd: DECIMAL_DIGITS has one row for each run 0..9 of them       *)
(* (Unicode 14.0.0, the interpreter's unicodedata).  The value is computed *)
(* for inputs whose value is within TLC's integers.                        *)
(***************************************************************************)
Digits == <<"0", "1", "2", "3", "4", "5", "6", "7", "8", "9">>

DECIMAL_DIGITS == <<
    Digits,
    <<"U+0660", "U+0661", "U+0662", "U+0663", "U+0664", "U+0665", "U+0666", "U+0667", "U+0668", "U+0669">>,
    <<"U+06F0", "U+06F1", "U+06F2", "U+06F3", "U+06F4", "U+06F5", "U+06F6", "U+06F7", "U+06F8", "U+06F9">>,
    <<"U+07C0", "U+07C1", "U+07C2", "U+07C3", "U+07C4", "U+07C5", "U+07C6", "U+07C7", "U+07C8", "U+07C9">>,
    <<"U+0966", "U+0967", "U+0968", "U+0969", "U+096A", "U+096B", "U+096C", "U+096D", "U+096E", "U+096F">>,
    <<"U+09E6", "U+09E7", "U+09E8", "U+09E9", "U+09EA", "U+09EB", "U+09EC", "U+09ED", "U+09EE", "U+09EF">>,
    <<"U+0A66", "U+0A67", "U+0A68", "U+0A69", "U+0A6A", "U+0A6B", "U+0A6C", "U+0A6D", "U+0A6E", "U+0A6F">>,
    <<"U+0AE6", "U+0AE7", "U+0AE8", "U+0AE9", "U+0AEA", "U+0AEB", "U+0AEC", "U+0AED", "U+0AEE", "U+0AEF">>,
    <<"U+0B66", "U+0B67", "U+0B68", "U+0B69", "U+0B6A", "U+0B6B", "U+0B6C", "U+0B6D", "U+0B6E", "U+0B6F">>,
    <<"U+0BE6", "U+0BE7", "U+0BE8", "U+0BE9", "U+0BEA", "U+0BEB", "U+0BEC", "U+0BED", "U+0BEE", "U+0BEF">>,
    <<"U+0C66", "U+0C67", "U+0C68", "U+0C69", "U+0C6A", "U+0C6B", "U+0C6C", "U+0C6D", "U+0C6E", "U+0C6F">>,
    <<"U+0CE6", "U+0CE7", "U+0CE8", "U+0CE9", "U+0CEA", "U+0CEB", "U+0CEC", "U+0CED", "U+0CEE", "U+0CEF">>,
    <<"U+0D66", "U+0D67", "U+0D68", "U+0D69", "U+0D6A", "U+0D6B", "U+0D6C", "U+0D6D", "U+0D6E", "U+0D6F">>,
    <<"U+0DE6", "U+0DE7", "U+0DE8", "U+0DE9", "U+0DEA", "U+0DEB", "U+0DEC", "U+0DED", "U+0DEE", "U+0DEF">>,
    <<"U+0E50", "U+0E51", "U+0E52", "U+0E53", "U+0E54", "U+0E55", "U+0E56", "U+0E57", "U+0E58", "U+0E59">>,
    <<"U+0ED0", "U+0ED1", "U+0ED2", "U+0ED3", "U+0ED4", "U+0ED5", "U+0ED6", "U+0ED7", "U+0ED8", "U+0ED9">>,
    <<"U+0F20", "U+0F21", "U+0F22", "U+0F23", "U+0F24", "U+0F25", "U+0F26", "U+0F27", "U+0F28", "U+0F29">>,
    <<"U+1040", "U+1041", "U+1042", "U+1043", "U+1044", "U+1045", "U+1046", "U+1047", "U+1048", "U+1049">>,
    <<"U+1090", "U+1091", "U+1092", "U+1093", "U+1094", "U+1095", "U+1096", "U+1097", "U+1098", "U+1099">>,
    <<"U+17E0", "U+17E1", "U+17E2", "U+17E3", "U+17E4", "U+17E5", "U+17E6", "U+17E7", "U+17E8", "U+17E9">>,
    <<"U+1810", "U+1811", "U+1812", "U+1813", "U+1814", "U+1815", "U+1816", "U+1817", "U+1818", "U+1819">>,
    <<"U+1946", "U+1947", "U+1948", "U+1949", "U+194A", "U+194B", "U+194C", "U+194D", "U+194E", "U+194F">>,
    <<"U+19D0", "U+19D1", "U+19D2", "U+19D3", "U+19D4", "U+19D5", "U+19D6", "U+19D7", "U+19D8", "U+19D9">>,
    <<"U+1A80", "U+1A81", "U+1A82", "U+1A83", "U+1A84", "U+1A85", "U+1A86", "U+1A87", "U+1A88", "U+1A89">>,
    <<"U+1A90", "U+1A91", "U+1A92", "U+1A93", "U+1A94", "U+1A95", "U+1A96", "U+1A97", "U+1A98", "U+1A99">>,
    <<"U+1B50", "U+1B51", "U+1B52", "U+1B53", "U+1B54", "U+1B55", "U+1B56", "U+1B57", "U+1B58", "U+1B59">>,
    <<"U+1BB0", "U+1BB1", "U+1BB2", "U+1BB3", "U+1BB4", "U+1BB5", "U+1BB6", "U+1BB7", "U+1BB8", "U+1BB9">>,
    <<"U+1C40", "U+1C41", "U+1C42", "U+1C43", "U+1C44", "U+1C45", "U+1C46", "U+1C47", "U+1C48", "U+1C49">>,
    <<"U+1C50", "U+1C51", "U+1C52", "U+1C53", "U+1C54", "U+1C55", "U+1C56", "U+1C57", "U+1C58", "U+1C59">>,
    <<"U+A620", "U+A621", "U+A622", "U+A623", "U+A624", "U+A625", "U+A626", "U+A627", "U+A628", "U+A629">>,
    <<"U+A8D0", "U+A8D1", "U+A8D2", "U+A8D3", "U+A8D4", "U+A8D5", "U+A8D6", "U+A8D7", "U+A8D8", "U+A8D9">>,
    <<"U+A900", "U+A901", "U+A902", "U+A903", "U+A904", "U+A905", "U+A906", "U+A907", "U+A908", "U+A909">>,
    <<"U+A9D0", "U+A9D1", "U+A9D2", "U+A9D3", "U+A9D4", "U+A9D5", "U+A9D6", "U+A9D7", "U+A9D8", "U+A9D9">>,
    <<"U+A9F0", "U+A9F1", "U+A9F2", "U+A9F3", "U+A9F4", "U+A9F5", "U+A9F6", "U+A9F7", "U+A9F8", "U+A9F9">>,
    <<"U+AA50", "U+AA51", "U+AA52", "U+AA53", "U+AA54", "U+AA55", "U+AA56", "U+AA57", "U+AA58", "U+AA59">>,
    <<"U+ABF0", "U+ABF1", "U+ABF2", "U+ABF3", "U+ABF4", "U+ABF5", "U+ABF6", "U+ABF7", "U+ABF8", "U+ABF9">>,
    <<"U+FF10", "U+FF11", "U+FF12", "U+FF13", "U+FF14", "U+FF15", "U+FF16", "U+FF17", "U+FF18", "U+FF19">>,
    <<"U+104A0", "U+104A1", "U+104A2", "U+104A3", "U+104A4", "U+104A5", "U+104A6", "U+104A7", "U+104A8", "U+104A9">>,
    <<"U+10D30", "U+10D31", "U+10D32", "U+10D33", "U+10D34", "U+10D35", "U+10D36", "U+10D37", "U+10D38", "U+10D39">>,
    <<"U+11066", "U+11067", "U+11068", "U+11069", "U+1106A", "U+1106B", "U+1106C", "U+1106D", "U+1106E", "U+1106F">>,
    <<"U+110F0", "U+110F1", "U+110F2", "U+110F3", "U+110F4", "U+110F5", "U+110F6", "U+110F7", "U+110F8", "U+110F9">>,
    <<"U+11136", "U+11137", "U+11138", "U+11139", "U+1113A", "U+1113B", "U+1113C", "U+1113D", "U+1113E", "U+1113F">>,
    <<"U+111D0", "U+111D1", "U+111D2", "U+111D3", "U+111D4", "U+111D5", "U+111D6", "U+111D7", "U+111D8", "U+111D9">>,
    <<"U+112F0", "U+112F1", "U+112F2", "U+112F3", "U+112F4", "U+112F5", "U+112F6", "U+112F7", "U+112F8", "U+112F9">>,
    <<"U+11450", "U+11451", "U+11452", "U+11453", "U+11454", "U+11455", "U+11456", "U+11457", "U+11458", "U+11459">>,
    <<"U+114D0", "U+114D1", "U+114D2", "U+114D3", "U+114D4", "U+114D5", "U+114D6", "U+114D7", "U+114D8", "U+114D9">>,
    <<"U+11650", "U+11651", "U+11652", "U+11653", "U+11654", "U+11655", "U+11656", "U+11657", "U+11658", "U+11659">>,
    <<"U+116C0", "U+116C1", "U+116C2", "U+116C3", "U+116C4", "U+116C5", "U+116C6", "U+116C7", "U+116C8", "U+116C9">>,
    <<"U+11730", "U+11731", "U+11732", "U+11733", "U+11734", "U+11735", "U+11736", "U+11737", "U+11738", "U+11739">>,
    <<"U+118E0", "U+118E1", "U+118E2", "U+118E3", "U+118E4", "U+118E5", "U+118E6", "U+118E7", "U+118E8", "U+118E9">>,
    <<"U+11950", "U+11951", "U+11952", "U+11953", "U+11954", "U+11955", "U+11956", "U+11957", "U+11958", "U+11959">>,
    <<"U+11C50", "U+11C51", "U+11C52", "U+11C53", "U+11C54", "U+11C55", "U+11C56", "U+11C57", "U+11C58", "U+11C59">>,
    <<"U+11D50", "U+11D51", "U+11D52", "U+11D53", "U+11D54", "U+11D55", "U+11D56", "U+11D57", "U+11D58", "U+11D59">>,
    <<"U+11DA0", "U+11DA1", "U+11DA2", "U+11DA3", "U+11DA4", "U+11DA5", "U+11DA6", "U+11DA7", "U+11DA8", "U+11DA9">>,
    <<"U+16A60", "U+16A61", "U+16A62", "U+16A63", "U+16A64", "U+16A65", "U+16A66", "U+16A67", "U+16A68", "U+16A69">>,
    <<"U+16AC0", "U+16AC1", "U+16AC2", "U+16AC3", "U+16AC4", "U+16AC5", "U+16AC6", "U+16AC7", "U+16AC8", "U+16AC9">>,
    <<"U+16B50", "U+16B51", "U+16B52", "U+16B53", "U+16B54", "U+16B55", "U+16B56", "U+16B57", "U+16B58", "U+16B59">>,
    <<"U+1D7CE", "U+1D7CF", "U+1D7D0", "U+1D7D1", "U+1D7D2", "U+1D7D3", "U+1D7D4", "U+1D7D5", "U+1D7D6", "U+1D7D7">>,
    <<"U+1D7D8", "U+1D7D9", "U+1D7DA", "U+1D7DB", "U+1D7DC", "U+1D7DD", "U+1D7DE", "U+1D7DF", "U+1D7E0", "U+1D7E1">>,
    <<"U+1D7E2", "U+1D7E3", "U+1D7E4", "U+1D7E5", "U+1D7E6", "U+1D7E7", "U+1D7E8", "U+1D7E9", "U+1D7EA", "U+1D7EB">>,
    <<"U+1D7EC", "U+1D7ED", "U+1D7EE", "U+1D7EF", "U+1D7F0", "U+1D7F1", "U+1D7F2", "U+1D7F3", "U+1D7F4", "U+1D7F5">>,
    <<"U+1D7F6", "U+1D7F7", "U+1D7F8", "U+1D7F9", "U+1D7FA", "U+1D7FB", "U+1D7FC", "U+1D7FD", "U+1D7FE", "U+1D7FF">>,
    <<"U+1E140", "U+1E141", "U+1E142", "U+1E143", "U+1E144", "U+1E145", "U+1E146", "U+1E147", "U+1E148", "U+1E149">>,
    <<"U+1E2F0", "U+1E2F1", "U+1E2F2", "U+1E2F3", "U+1E2F4", "U+1E2F5", "U+1E2F6", "U+1E2F7", "U+1E2F8", "U+1E2F9">>,
    <<"U+1E950", "U+1E951", "U+1E952", "U+1E953", "U+1E954", "U+1E955", "U+1E956", "U+1E957", "U+1E958", "U+1E959">>,
    <<"U+1FBF0", "U+1FBF1", "U+1FBF2", "U+1FBF3", "U+1FBF4", "U+1FBF5", "U+1FBF6", "U+1FBF7", "U+1FBF8", "U+1FBF9">>>>

\* sys.int_info.default_max_str_digits
INT_MAX_STR_DIGITS == 4300

IsDigit(c) == \E r \in 1..Len(DECIMAL_DIGITS) : \E d \in 1..10 : DECIMAL_DIGITS[r][d] = c
DigitVal(c) ==
    (CHOOSE d \in 1..10 : \E r \in 1..Len(DECIMAL_DIGITS) : DECIMAL_DIGITS[r][d] = c) - 1

RECURSIVE DecVal(_)
DecVal(s) == IF s = <<>> THEN 0 ELSE 10 * DecVal(SubSeq(s, 1, Len(s) - 1)) + DigitVal(s[Len(s)])

\* digits, with single underscores between digits only, and no more digits
\* than the interpreter converts
IsIntBody(body) ==
    /\ body # <<>>
    /\ \A i \in 1..Len(body) :
          \/ IsDigit(body[i])
          \/ /\ body[i] = "_"
             /\ i > 1 /\ i < Len(body)
             /\ IsDigit(body[i - 1]) /\ IsDigit(body[i + 1])
    /\ Len(SelectSeq(body, IsDigit)) <= INT_MAX_STR_DIGITS

ParseInt(raw) ==
    LET s == Bind(raw, LAMBDA v : RStrip(LStrip(v, INT_WHITESPACE), INT_WHITESPACE))
        signed == s # <<>> /\ Head(s) \in {"+", "-"}
        body == IF signed THEN Tail(s) ELSE s
    IN  IF IsIntBody(body)
        THEN LET magnitude == DecVal(SelectSeq(body, IsDigit))
             IN  [ok |-> TRUE, v |-> IF signed /\ Head(s) = "-" THEN 0 - magnitude ELSE magnitude]
        ELSE [ok |-> FALSE, v |-> 0]

\* int(request.args.get("limit", 20))
LimitArg(a) == IF a.limit = Absent THEN [ok |-> TRUE, v |-> DEFAULT_LIMIT] ELSE ParseInt(a.limit)

\* min(int(...), 50)
Limit(a) == Min(LimitArg(a).v, MAX_LIMIT)

(***************************************************************************)
(* news_feed: the normalisation of one entry.                              *)
(***************************************************************************)
NO_TITLE == <<"(", "n", "o", " ", "t", "i", "t", "l", "e", ")">>

\* first truthy of published / updated / created
Published(entry) ==
    LET p == GetAttr(entry, "published", NoneVal)
        u == GetAttr(entry, "updated", NoneVal)
        c == GetAttr(entry, "created", NoneVal)
    IN  IF Truthy(p) THEN p ELSE IF Truthy(u) THEN u ELSE IF Truthy(c) THEN c ELSE <<>>

DescriptionSummaryFirst(entry) ==
    IF HasAttr(entry, "summary")
    THEN SliceTo(Or(entry.summary, <<>>), DESC_MAX)
    ELSE IF HasAttr(entry, "content") /\ NonEmpty(entry.content)
    THEN SliceTo(GetAttr(entry.content[1], "value", <<>>), DESC_MAX)
    ELSE IF HasAttr(entry, "description")
    THEN SliceTo(Or(entry.description, <<>>), DESC_MAX)
    ELSE <<>>

Description(entry) ==
    IF HasAttr(entry, "content") /\ NonEmpty(entry.content)
    THEN SliceTo(GetAttr(entry.content[1], "value", <<>>), DESC_MAX)
    ELSE IF HasAttr(entry, "summary")
    THEN SliceTo(Or(entry.summary, <<>>), DESC_MAX)
    ELSE IF HasAttr(entry, "description")
    THEN SliceTo(Or(entry.description, <<>>), DESC_MAX)
    ELSE <<>>

Thumbnail(entry) ==
    IF HasAttr(entry, "media_thumbnail") /\ NonEmpty(entry.media_thumbnail)
    THEN GetAttr(entry.media_thumbnail[1], "url", <<>>)
    ELSE IF HasAttr(entry, "media_content") /\ NonEmpty(entry.media_content)
    THEN GetAttr(entry.media_content[1], "url", <<>>)
    ELSE <<>>

Item(entry) ==
    [title |-> GetAttr(entry, "title", NO_TITLE),
     link |-> GetAttr(entry, "link", <<>>),
     published |-> Published(entry),
     description |-> Description(entry),
     thumbnail |-> Thumbnail(entry),
     author |-> GetAttr(entry, "author", <<>>)]

\* the loop over parsed.entries[:limit]
Items(entries, lim) ==
    LET kept == SliceTo(entries, lim)
    IN  [i \in 1..Len(kept) |-> Item(kept[i])]

(***************************************************************************)
(* news_feed: the handler.                                                 *)
(***************************************************************************)
DEFAULT_FEED_URL == <<"h", "t", "t", "p", "s", ":", "/", "/", "h", "n", "r", "s", "s", ".", "o", "r", "g", "/", "f", "r", "o", "n", "t", "p", "a", "g", "e">>
FEED_ERROR == <<"F", "e", "e", "d", " ", "e", "r", "r", "o", "r", ":", " ">>
UNKNOWN_PARSE_ERROR == <<"U", "n", "k", "n", "o", "w", "n", " ", "p", "a", "r", "s", "e", " ", "e", "r", "r", "o", "r">>

NoResp == [status |-> 0, body |-> NoObj]

\* request.args.get("url") or os.environ.get("NEWS_RSS_URL", <default>)
FeedUrl(a, env) ==
    IF a.url # Absent /\ a.url # <<>> THEN a.url
    ELSE IF env # Absent THEN env ELSE DEFAULT_FEED_URL

FeedResponseBozoAlwaysFails(p, lim) ==
    IF p.bozo
    THEN [status |-> 502,
          body |-> [error |-> FEED_ERROR \o GetAttr(p, "bozo_exception", UNKNOWN_PARSE_ERROR)]]
    ELSE [status |-> 200,
          body |-> [items |-> Items(p.entries, lim),
                    feed_title |-> Or(GetAttr(p.feed, "title", <<>>), <<>>)]]

\* lines 39-86: what the handler returns once the feed is parsed
FeedResponse(p, lim) ==
    IF p.bozo /\ ~NonEmpty(p.entries)
    THEN [status |-> 502,
          body |-> [error |-> FEED_ERROR \o GetAttr(p, "bozo_exception", UNKNOWN_PARSE_ERROR)]]
    ELSE [status |-> 200,
          body |-> [items |-> Items(p.entries, lim),
                    feed_title |-> Or(GetAttr(p.feed, "title", <<>>), <<>>)]]

(***************************************************************************)
(* fetch_article: the pure steps.                                          *)
(***************************************************************************)
URL_REQUIRED == <<"u", "r", "l", " ", "p", "a", "r", "a", "m", "e", "t", "e", "r", " ", "i", "s", " ", "r", "e", "q", "u", "i", "r", "e", "d">>
HTTP == <<"h", "t", "t", "p">>
PARA_SEP == <<"\n", "\n">>
P_OPEN == <<"<", "p", ">">>
P_CLOSE == <<"<", "/", "p", ">">>

\* request.args.get("url", "").strip()
ArticleUrl(a) == Strip(IF a.url = Absent THEN <<>> ELSE a.url)

StartsWith(s, prefix) ==
    Len(s) >= Len(prefix) /\ SubSeq(s, 1, Len(prefix)) = prefix

RECURSIVE Concat(_)
Concat(ss) == IF ss = <<>> THEN <<>> ELSE Head(ss) \o Concat(Tail(ss))

RECURSIVE Join(_, _)
Join(ss, sep) ==
    IF ss = <<>> THEN <<>>
    ELSE IF Len(ss) = 1 THEN Head(ss)
    ELSE Head(ss) \o sep \o Join(Tail(ss), sep)

\* sep occurs in s at position i
OccursAt(s, sep, i) ==
    i + Len(sep) - 1 <= Len(s) /\ SubSeq(s, i, i + Len(sep) - 1) = sep

\* str.find(sep, from): the first position at or after `from` where sep occurs,
\* 0 when there is none
Find(s, sep, from) ==
    Bind({i \in from..Len(s) : OccursAt(s, sep, i)},
         LAMBDA occ : IF occ = {} THEN 0
                      ELSE CHOOSE i \in occ : \A j \in occ : i <= j)

\* str.split(sep): the pieces between successive occurrences of sep, left to right
RECURSIVE SplitFrom(_, _, _)
SplitFrom(s, sep, from) ==
    CHOOSE pieces \in
        {IF i = 0 THEN <<SubSeq(s, from, Len(s))>>
         ELSE <<SubSeq(s, from, i - 1)>> \o SplitFrom(s, sep, i + Len(sep)) :
            i \in {Find(s, sep, from)}} : TRUE

Split(s, sep) == SplitFrom(s, sep, 1)

TwoDigits(n) == <<Digits[((n \div 10) % 10) + 1], Digits[(n % 10) + 1]>>
FourDigits(n) == TwoDigits(n \div 100) \o TwoDigits(n % 100)

\* datetime.isoformat() of a naive datetime without microseconds
IsoFormat(d) ==
    FourDigits(d.year) \o <<"-">> \o TwoDigits(d.month) \o <<"-">> \o TwoDigits(d.day)
    \o <<"T">> \o TwoDigits(d.hour) \o <<":">> \o TwoDigits(d.minute)
    \o <<":">> \o TwoDigits(d.second)

NoDate == [isNone |-> TRUE]

\* lines 115-120: the locals before either strategy has run
EmptyLocals ==
    [text |-> <<>>, title |-> <<>>, authors |-> <<>>, publish_date |-> <<>>,
     top_image |-> <<>>]

\* lines 128-132: the five assignments, of which the first k complete
ReadFields(art, k) ==
    [text |-> IF k >= 1 THEN Strip(Or(art.text, <<>>)) ELSE <<>>,
     title |-> IF k >= 2 THEN Or(art.title, <<>>) ELSE <<>>,
     authors |-> IF k >= 3 THEN Or(art.authors, <<>>) ELSE <<>>,
     publish_date |-> IF k >= 4 /\ ~art.publish_date.isNone
                      THEN IsoFormat(art.publish_date) ELSE <<>>,
     top_image |-> IF k >= 5 THEN Or(art.top_image, <<>>) ELSE <<>>]

NeedsFallbackInclusive(t) == Len(t) <= MIN_TEXT

\* line 139
NeedsFallback(t) == Len(t) < MIN_TEXT

STRIPPED_TAGS == {"script", "style", "iframe", "object", "embed"}

KeepNode(n) == n.tag \notin STRIPPED_TAGS

\* lines 151-152: the loop after k of its decompose() calls
RECURSIVE Decompose(_, _)
Decompose(nodes, k) ==
    IF nodes = <<>> \/ k = 0 THEN nodes
    ELSE IF KeepNode(Head(nodes)) THEN <<Head(nodes)>> \o Decompose(Tail(nodes), k)
    ELSE Decompose(Tail(nodes), k - 1)

\* lines 151-152: decompose every script/style/iframe/object/embed element
Clean(nodes) == SelectSeq(nodes, KeepNode)

HasString(n) == HasAttr(n, "text") /\ n.text # <<>>

NodeString(nodes) ==
    Bind(SelectSeq(nodes, HasString), LAMBDA strs : [i \in 1..Len(strs) |-> strs[i].text])

\* line 154: soup.get_text(separator="\n\n").strip()
GetText(nodes) == Strip(Join(NodeString(nodes), PARA_SEP))

Attr(name, value) == <<" ">> \o name \o <<"=", "\"">> \o value \o <<"\"">>

TagChars(tag) ==
    CASE tag = "p" -> <<"p">>
      [] tag = "script" -> <<"s", "c", "r", "i", "p", "t">>
      [] tag = "style" -> <<"s", "t", "y", "l", "e">>

NodeHtml(n) ==
    IF n.tag = "#text" THEN n.text
    ELSE IF n.tag = "img"
    THEN <<"<", "i", "m", "g">>
         \o (IF HasAttr(n, "alt") THEN Attr(<<"a", "l", "t">>, n.alt) ELSE <<>>)
         \o (IF HasAttr(n, "src") THEN Attr(<<"s", "r", "c">>, n.src) ELSE <<>>)
         \o <<"/", ">">>
    ELSE <<"<">> \o TagChars(n.tag) \o <<">">> \o n.text \o <<"<", "/">> \o TagChars(n.tag) \o <<">">>

\* line 158: str(soup)
Serialize(nodes) == Concat([i \in 1..Len(nodes) |-> NodeHtml(nodes[i])])

IsImgWithSrc(n) == n.tag = "img" /\ HasAttr(n, "src")

FallbackWinsOnTie(ft, t) == Len(ft) >= Len(t)

\* line 156
FallbackWins(ft, t) == Len(ft) > Len(t)

\* lines 159-160
AdoptTitle(t, rt) == IF ~Truthy(t) THEN Or(rt, <<>>) ELSE t

\* lines 162-167: the first img element carrying a src, taken if it is absolute
AdoptImage(img, nodes) ==
    IF Truthy(img) THEN img
    ELSE LET imgs == SelectSeq(nodes, IsImgWithSrc)
         IN  IF imgs # <<>> /\ StartsWith(imgs[1].src, HTTP) THEN imgs[1].src ELSE <<>>

AdoptHtmlDropped(nodes) == <<>>

\* line 158
AdoptHtml(nodes) == Serialize(nodes)

IsBlank(s) == Strip(s) = <<>>
NotBlank(s) == ~IsBlank(s)

\* line 175
Paragraphs(t) ==
    Bind(SelectSeq(Split(t, PARA_SEP), NotBlank),
         LAMBDA kept : [i \in 1..Len(kept) |-> Strip(kept[i])])

\* lines 174-176
FinalHtml(t, h) ==
    IF Truthy(t) /\ ~Truthy(h)
    THEN Bind(Paragraphs(t),
              LAMBDA ps : Concat([i \in 1..Len(ps) |-> P_OPEN \o ps[i] \o P_CLOSE]))
    ELSE h

(***************************************************************************)
(* The feeds the parser may hand back.                                     *)
(***************************************************************************)
LongText == <<"y">> \o Rep("a", DESC_MAX - 1) \o <<"z">>     \* DESC_MAX + 1 characters
ExactText == <<"x">> \o Rep("b", DESC_MAX - 1)               \* DESC_MAX characters

EntryPool == <<
    [title |-> <<"T", "1">>, link |-> <<"h", "t", "t", "p", ":", "/", "/", "l">>, published |-> <<"M", "o", "n">>, updated |-> <<"T", "u", "e">>,
     content |-> <<[type |-> <<"h", "t", "m", "l">>, value |-> LongText]>>,
     summary |-> <<"s", "u", "m">>, description |-> <<"s", "u", "m">>, author |-> <<"A", "n", "n">>,
     media_thumbnail |-> <<[url |-> <<"h", "t", "t", "p", ":", "/", "/", "t">>]>>, media_content |-> <<[url |-> <<"h", "t", "t", "p", ":", "/", "/", "m">>]>>],
    [link |-> <<"h", "t", "t", "p", ":", "/", "/", "l">>, updated |-> <<"T", "u", "e">>, summary |-> ExactText,
     media_content |-> <<[url |-> <<"h", "t", "t", "p", ":", "/", "/", "m">>]>>],
    [title |-> <<"T", "2">>, created |-> <<"W", "e", "d">>, description |-> <<"d", "e", "s", "c">>],
    [title |-> <<"T", "1">>, published |-> <<>>, updated |-> <<"T", "u", "e">>, content |-> <<>>,
     summary |-> LongText, description |-> <<"d", "e", "s", "c">>,
     media_thumbnail |-> <<>>, media_content |-> <<[url |-> <<"h", "t", "t", "p", ":", "/", "/", "m">>], [url |-> <<"h", "t", "t", "p", ":", "/", "/", "t">>]>>],
    NoObj,
    [title |-> <<"T", "2">>, content |-> <<[type |-> <<"h", "t", "m", "l">>]>>, summary |-> <<"s", "u", "m">>,
     media_thumbnail |-> <<[width |-> <<"6", "4">>]>>, media_content |-> <<[url |-> <<"h", "t", "t", "p", ":", "/", "/", "m">>]>>],
    [summary |-> NoneVal, description |-> <<"d", "e", "s", "c">>, published |-> NoneVal,
     created |-> <<"W", "e", "d">>, author |-> <<"A", "n", "n">>],
    [content |-> <<[value |-> <<"<", "b", ">", "c", "<", "/", "b", ">">>], [value |-> <<"d", "e", "s", "c">>]>>, description |-> LongText,
     summary |-> <<>>] >>

PoolSize == Len(EntryPool)

FeedEntries(n, rot) == [i \in 1..n |-> EntryPool[((i - 1 + rot) % PoolSize) + 1]]

\* feeds short, around the default limit, and around the cap
EntryCounts ==
    {n \in 0..MaxEntries :
        \/ n <= 2
        \/ n >= DEFAULT_LIMIT - 1 /\ n <= DEFAULT_LIMIT + 2
        \/ n >= MAX_LIMIT - 1}

FeedObjs == {NoObj, [title |-> <<"F", "e", "e", "d">>], [title |-> NoneVal]}

ParsedFeeds ==
    {[bozo |-> b, entries |-> FeedEntries(n, r), feed |-> f] :
        b \in BOOLEAN, n \in EntryCounts, r \in 0..MaxRot, f \in FeedObjs}
    \cup
    {[bozo |-> TRUE, bozo_exception |-> <<"n", "o", "t", " ", "w", "e", "l", "l", "-", "f", "o", "r", "m", "e", "d">>, entries |-> FeedEntries(n, 0),
      feed |-> NoObj] : n \in EntryCounts}

FeedOutcomes ==
    {[raised |-> TRUE, msg |-> <<"t", "i", "m", "e", "d", " ", "o", "u", "t">>]}
    \cup {[raised |-> FALSE, parsed |-> p] : p \in ParsedFeeds}

LimitValues ==
    {Absent, <<>>, <<"x", "1">>, <<"-", "1">>, <<"-", "3">>, <<"0">>, <<" ", "2", " ">>, <<"2", "1">>, <<"5", "0">>, <<"5", "1">>,
     <<"1", "_", "0">>, <<"\f", "7">>, <<"U+001F", "7">>, <<"U+001D", "-", "3", "U+001E">>,
     <<"U+0663">>, <<"U+0661", "U+0660">>, <<"+", "1", "_", "U+FF17">>, <<"U+00A0", "U+1D7CE", "3">>,
     Rep("1", INT_MAX_STR_DIGITS + 1)}

NewsArgs == {[url |-> u, limit |-> l] : u \in {Absent, <<"h", "t", "t", "p", ":", "/", "/", "f">>}, l \in LimitValues}

EnvValues == {Absent, <<"h", "t", "t", "p", ":", "/", "/", "e">>}

\* lines 26-29: the request and the environment are read
NewsRequest ==
    /\ pc = "idle"
    /\ \E a \in NewsArgs, env \in EnvValues :
         /\ args' = a
         /\ feed_url' = FeedUrl(a, env)
         /\ IF ~LimitArg(a).ok
            THEN \* int() raises ValueError: the framework answers 500
                 /\ limit' = limit
                 /\ resp' = [status |-> 500, body |-> NoObj]
                 /\ pc' = "news_done"
            ELSE /\ limit' = Limit(a)
                 /\ resp' = resp
                 /\ pc' = "news_parse"
    /\ UNCHANGED <<fetches, parsed, articleVars>>

\* lines 31-37: feedparser.parse downloads and parses the feed
NewsParse ==
    /\ pc = "news_parse"
    /\ fetches' = Append(fetches, [stage |-> "feed", url |-> feed_url])
    /\ \E out \in FeedOutcomes :
         IF out.raised
         THEN /\ resp' = [status |-> 502, body |-> [error |-> out.msg]]
              /\ parsed' = parsed
              /\ pc' = "news_done"
         ELSE /\ resp' = resp
              /\ parsed' = out.parsed
              /\ pc' = "news_build"
    /\ UNCHANGED <<args, feed_url, limit, articleVars>>

\* lines 39-86
NewsBuild ==
    /\ pc = "news_build"
    /\ resp' = FeedResponse(parsed, limit)
    /\ pc' = "news_done"
    /\ UNCHANGED <<args, fetches, feedVars, articleVars>>

(***************************************************************************)
(* fetch_article: what the libraries may hand back.                        *)
(***************************************************************************)
ArticleArgs ==
    {[url |-> u, limit |-> Absent] :
        u \in {Absent, <<>>, <<" ", "\n", " ">>, <<"\f", "U+00A0">>, <<"h", "t", "t", "p", ":", "/", "/", "a">>, <<" ", "h", "t", "t", "p", ":", "/", "/", "a", "\n">>}}

ArticleTexts ==
    {<<>>, NoneVal, <<" ", "\n", " ">>,
     <<" ", "a", "b", " ", "\n", "\n", " ", "\n", "\n", "c", "d", "\n", "\n", "\n", "e", "f", " ">>,
     <<" ">> \o Rep("a", MIN_TEXT - 1) \o <<"\n">>,
     Rep("a", MIN_TEXT),
     Rep("a", MIN_TEXT - 40) \o PARA_SEP \o Rep("b", MIN_TEXT - 40)}

\* the handler hands the authors' names on without looking inside them: a
\* name is written as one string
ArticleMetas ==
    {[title |-> <<>>, authors |-> <<>>, publish_date |-> NoDate, top_image |-> <<>>],
     [title |-> <<"T">>, authors |-> <<"Ann", "Bob">>,
      publish_date |-> [isNone |-> FALSE, year |-> 2024, month |-> 3, day |-> 5,
                        hour |-> 17, minute |-> 8, second |-> 9],
      top_image |-> <<"h", "t", "t", "p", ":", "/", "/", "i">>],
     [title |-> <<"T">>, authors |-> NoneVal,
      publish_date |-> [isNone |-> FALSE, year |-> 2024, month |-> 3, day |-> 5,
                        hour |-> 17, minute |-> 8, second |-> 9],
      top_image |-> <<"h", "t", "t", "p", ":", "/", "/", "i">>],
     [title |-> NoneVal, authors |-> <<"Ann">>,
      publish_date |-> [isNone |-> FALSE, year |-> 1999, month |-> 12, day |-> 31,
                        hour |-> 0, minute |-> 0, second |-> 0],
      top_image |-> NoneVal]}

Articles ==
    {[text |-> t, title |-> m.title, authors |-> m.authors,
      publish_date |-> m.publish_date, top_image |-> m.top_image] :
        t \in ArticleTexts, m \in ArticleMetas}

P(t) == [tag |-> "p", text |-> t]
Img(src) == [tag |-> "img", src |-> src]

\* readability fragments, in document order
Fragments ==
    {<<>>,
     <<P(<<"h", "i">>)>>,
     <<P(<<"0", "1", "2", "3", "4", "5", "6", "7", "8", "9", "a", "b", "c", "d", "e">>)>>,
     <<P(Rep("c", MIN_TEXT + 20))>>,
     <<Img(<<"/", "r", "e", "l", ".", "p", "n", "g">>), P(<<"h", "e", "l", "l", "o", " ", "w", "o", "r", "l", "d", ",", " ", "t", "h", "i", "s", " ", "i", "s", " ", "i", "t">>), Img(<<"h", "t", "t", "p", ":", "/", "/", "x", "/", "i", ".", "p", "n", "g">>)>>,
     <<[tag |-> "img", alt |-> <<"l", "o", "g", "o">>], Img(<<"h", "t", "t", "p", ":", "/", "/", "x", "/", "i", ".", "p", "n", "g">>), P(Rep("c", MIN_TEXT))>>,
     <<Img(<<"h", "t", "t", "p", "s", ":", "/", "/", "y", "/", "j", ".", "p", "n", "g">>), P(<<"h", "e", "l", "l", "o", " ", "w", "o", "r", "l", "d", ",", " ", "t", "h", "i", "s", " ", "i", "s", " ", "i", "t">>), Img(<<"h", "t", "t", "p", ":", "/", "/", "x", "/", "i", ".", "p", "n", "g">>)>>,
     <<[tag |-> "script", text |-> <<"e", "v", "i", "l", "(", ")">>], P(<<"a", "b">>), [tag |-> "style", text |-> <<"p", "{", "}">>],
       P(<<>>), P(<<"c", "d">>)>>,
     <<[tag |-> "script", text |-> Rep("j", MIN_TEXT + 50)]>>,
     <<[tag |-> "#text", text |-> <<" ", "\n">>], P(<<" ", "a", "b", "c", " ">>),
       [tag |-> "#text", text |-> <<"\n">>]>>}

ReadableTitles == {NoneVal, <<>>, <<"R">>}

(***************************************************************************)
(* fetch_article: the handler, statement by statement.                     *)
(***************************************************************************)
PrimaryPending == [finished |-> FALSE, raised |-> FALSE, locals |-> EmptyLocals]

\* lines 133-136: except (ArticleException, RequestException) / except Exception
PrimaryCatches(exc) ==
    exc \in {"ArticleException", "RequestException"} \/ exc \in {"Exception"}

\* lines 168-171: except ImportError / except Exception
FallbackCatches(exc) == exc \in {"ImportError"} \/ exc \in {"Exception", "RequestException"}

\* lines 178-186
ArticleBody ==
    [title |-> title, authors |-> authors, publish_date |-> publish_date,
     top_image |-> top_image, text |-> text,
     html |-> FinalHtml(text, html_content), source_url |-> url]

Locals == [text |-> text, title |-> title, authors |-> authors,
           publish_date |-> publish_date, top_image |-> top_image]

SetLocals(l) ==
    /\ text' = l.text
    /\ title' = l.title
    /\ authors' = l.authors
    /\ publish_date' = l.publish_date
    /\ top_image' = l.top_image

\* an exception nobody catches leaves the handler: the framework answers 500
Propagate ==
    /\ resp' = [status |-> 500, body |-> NoObj]
    /\ pc' = "article_done"

\* lines 101-120.  Line 101 imports newspaper outside any try: when that
\* raises, the exception leaves the handler whatever the url is
ArticleRequest ==
    /\ pc = "idle"
    /\ \E a \in ArticleArgs, imported \in {"ok", "ImportError"} :
         /\ args' = a
         /\ IF imported # "ok"
            THEN /\ Propagate
                 /\ url' = url
            ELSE /\ url' = ArticleUrl(a)
                 /\ IF ~Truthy(ArticleUrl(a))
                    THEN /\ resp' = [status |-> 400, body |-> [error |-> URL_REQUIRED]]
                         /\ pc' = "article_done"
                    ELSE /\ resp' = NoResp
                         /\ pc' = "primary_download"
    /\ SetLocals(EmptyLocals)
    /\ html_content' = <<>>
    /\ UNCHANGED <<fetches, feedVars, article, soup, readable_title, fallback_text, primary>>

\* the primary stage ends by an exception, the locals being l at that point
PrimaryRaises(exc, l) ==
    /\ SetLocals(l)
    /\ IF PrimaryCatches(exc)
       THEN /\ primary' = [finished |-> TRUE, raised |-> TRUE, locals |-> l]
            /\ pc' = "check"
            /\ resp' = resp
       ELSE /\ primary' = primary
            /\ Propagate

\* lines 124-125: Article(url, request_timeout=12) is built, then
\* requests.get(url, headers, timeout=12) fetches the page; when the
\* constructor raises nothing has been fetched
PrimaryDownload ==
    /\ pc = "primary_download"
    /\ \/ \E exc \in {"ArticleException", "Exception"} :
            /\ PrimaryRaises(exc, Locals)
            /\ fetches' = fetches
       \/ /\ fetches' = Append(fetches, [stage |-> "primary", url |-> url])
          /\ \E out \in {"ok", "RequestException", "Exception"} :
               IF out = "ok"
               THEN /\ pc' = "primary_parse"
                    /\ UNCHANGED <<resp, primary, text, title, authors, publish_date,
                                   top_image>>
               ELSE PrimaryRaises(out, Locals)
    /\ UNCHANGED <<args, feedVars, url, html_content, article, soup, readable_title,
                   fallback_text>>

\* lines 125-126: article.set_html(...), article.parse()
PrimaryParse ==
    /\ pc = "primary_parse"
    /\ \/ \E art \in Articles :
            /\ article' = art
            /\ pc' = "primary_read"
            /\ UNCHANGED <<resp, primary, text, title, authors, publish_date, top_image>>
       \/ \E exc \in {"ArticleException", "Exception"} :
            /\ PrimaryRaises(exc, Locals)
            /\ article' = article
    /\ UNCHANGED <<args, fetches, feedVars, url, html_content, soup, readable_title,
                   fallback_text>>

\* lines 128-132: the field reads; k of the five assignments complete, and the
\* read that follows raises when k < 5
PrimaryRead ==
    /\ pc = "primary_read"
    /\ \E k \in 0..5 :
         IF k = 5
         THEN /\ SetLocals(ReadFields(article, 5))
              /\ primary' = [finished |-> TRUE, raised |-> FALSE,
                             locals |-> ReadFields(article, 5)]
              /\ pc' = "check"
              /\ resp' = resp
         ELSE PrimaryRaises("Exception", ReadFields(article, k))
    /\ UNCHANGED <<args, fetches, feedVars, url, html_content, article, soup,
                   readable_title, fallback_text>>

\* line 139
FallbackCheck ==
    /\ pc = "check"
    /\ pc' = IF NeedsFallback(text) THEN "fallback_import" ELSE "respond"
    /\ UNCHANGED <<args, resp, fetches, feedVars, articleVars>>

\* the fallback stage ends by an exception; the locals stay as they are
FallbackRaises(exc) ==
    IF FallbackCatches(exc)
    THEN pc' = "respond" /\ resp' = resp
    ELSE Propagate

\* lines 141-142: from readability import Document; from bs4 import BeautifulSoup
FallbackImport ==
    /\ pc = "fallback_import"
    /\ \E out \in {"ok", "ImportError"} :
         IF out = "ok" THEN pc' = "fallback_fetch" /\ resp' = resp
         ELSE FallbackRaises(out)
    /\ UNCHANGED <<args, fetches, feedVars, articleVars>>

\* line 144: requests.get(url, headers, timeout=12)
FallbackFetch ==
    /\ pc = "fallback_fetch"
    /\ fetches' = Append(fetches, [stage |-> "fallback", url |-> url])
    /\ \E out \in {"ok", "RequestException"} :
         IF out = "ok" THEN pc' = "fallback_readability" /\ resp' = resp
         ELSE FallbackRaises(out)
    /\ UNCHANGED <<args, feedVars, articleVars>>

\* lines 146-150: Document(raw_html).summary() / .short_title(), parsed into a
\* tree.  Document(), summary() and short_title() raise before anything is
\* assigned; BeautifulSoup() raises after readable_title was
FallbackReadability ==
    /\ pc = "fallback_readability"
    /\ \/ \E frag \in Fragments, rt \in ReadableTitles :
            /\ soup' = frag
            /\ readable_title' = rt
            /\ pc' = "fallback_soup"
            /\ resp' = resp
       \/ /\ FallbackRaises("Exception")
          /\ UNCHANGED <<soup, readable_title>>
       \/ \E rt \in ReadableTitles :
            /\ FallbackRaises("Exception")
            /\ readable_title' = rt
            /\ soup' = soup
    /\ UNCHANGED <<args, fetches, feedVars, url, text, html_content, title, authors,
                   publish_date, top_image, article, fallback_text, primary>>

\* lines 151-154: decompose the unwanted elements, then get_text(...).strip().
\* The loop works on the tree in place: an exception finds it with k of the
\* elements removed (all of them when it is get_text() that raises)
FallbackSoup ==
    /\ pc = "fallback_soup"
    /\ \/ /\ soup' = Clean(soup)
          /\ fallback_text' = GetText(Clean(soup))
          /\ pc' = "fallback_adopt"
          /\ resp' = resp
       \/ \E k \in 0..(Len(soup) - Len(Clean(soup))) :
            /\ FallbackRaises("Exception")
            /\ soup' = Decompose(soup, k)
            /\ fallback_text' = fallback_text
    /\ UNCHANGED <<args, fetches, feedVars, url, text, html_content, title, authors,
                   publish_date, top_image, article, readable_title, primary>>

\* lines 156-167.  These statements work on the tree already built and on
\* strings: the comparison, str(soup), find("img", src=True) and the read of
\* the src it guarantees raise nothing
FallbackAdopt ==
    /\ pc = "fallback_adopt"
    /\ IF FallbackWins(fallback_text, text)
       THEN /\ text' = fallback_text
            /\ html_content' = AdoptHtml(soup)
            /\ title' = AdoptTitle(title, readable_title)
            /\ top_image' = AdoptImage(top_image, soup)
       ELSE UNCHANGED <<text, html_content, title, top_image>>
    /\ pc' = "respond"
    /\ UNCHANGED <<args, resp, fetches, feedVars, url, authors, publish_date, article,
                   soup, readable_title, fallback_text, primary>>

\* lines 173-186
Respond ==
    /\ pc = "respond"
    /\ html_content' = FinalHtml(text, html_content)
    /\ resp' = [status |-> 200, body |-> ArticleBody]
    /\ pc' = "article_done"
    /\ UNCHANGED <<args, fetches, feedVars, url, text, title, authors, publish_date,
                   top_image, article, soup, readable_title, fallback_text, primary>>

\* the response has been sent; nothing of the request is kept
Return ==
    /\ pc \in {"news_done", "article_done"}
    /\ pc' = "idle"
    /\ args' = [url |-> Absent, limit |-> Absent]
    /\ resp' = NoResp
    /\ fetches' = <<>>
    /\ feed_url' = <<>> /\ limit' = NoneVal /\ parsed' = NoObj
    /\ url' = <<>> /\ text' = <<>> /\ html_content' = <<>> /\ title' = <<>>
    /\ authors' = <<>> /\ publish_date' = <<>> /\ top_image' = <<>>
    /\ article' = NoObj /\ soup' = <<>> /\ readable_title' = NoneVal
    /\ fallback_text' = NoneVal /\ primary' = PrimaryPending

Init ==
    /\ pc = "idle"
    /\ args = [url |-> Absent, limit |-> Absent]
    /\ resp = NoResp
    /\ fetches = <<>>
    /\ feed_url = <<>> /\ limit = NoneVal /\ parsed = NoObj
    /\ url = <<>> /\ text = <<>> /\ html_content = <<>> /\ title = <<>>
    /\ authors = <<>> /\ publish_date = <<>> /\ top_image = <<>>
    /\ article = NoObj /\ soup = <<>> /\ readable_title = NoneVal
    /\ fallback_text = NoneVal /\ primary = PrimaryPending

NextFeed == NewsRequest \/ NewsParse \/ NewsBuild \/ Return

SpecFeed == Init /\ [][NextFeed]_vars

NextArticle ==
    \/ ArticleRequest
    \/ PrimaryDownload
    \/ PrimaryParse
    \/ PrimaryRead
    \/ FallbackCheck
    \/ FallbackImport
    \/ FallbackFetch
    \/ FallbackReadability
    \/ FallbackSoup
    \/ FallbackAdopt
    \/ Respond
    \/ Return

SpecArticle == Init /\ [][NextArticle]_vars

Next == NewsRequest \/ NewsParse \/ NewsBuild \/ NextArticle

Spec == Init /\ [][Next]_vars

(***************************************************************************)
(* Vocabulary of the properties.                                           *)
(***************************************************************************)
ArticlePcs ==
    {"primary_download", "primary_parse", "primary_read", "check", "fallback_import",
     "fallback_fetch", "fallback_readability", "fallback_soup", "fallback_adopt",
     "respond", "article_done"}

FallbackPcs ==
    {"fallback_import", "fallback_fetch", "fallback_readability", "fallback_soup",
     "fallback_adopt"}

FeedDone == pc = "news_done"
ArticleDone == pc = "article_done"

\* the url parameter is absent, empty or whitespace only
BlankUrl(a) == a.url = Absent \/ \A i \in 1..Len(a.url) : IsSpace(a.url[i])

\* u is raw without its leading and trailing whitespace
Trimmed(u, raw) ==
    /\ u # <<>>
    /\ ~IsSpace(u[1]) /\ ~IsSpace(u[Len(u)])
    /\ \E i \in 0..Len(raw) :
         /\ i + Len(u) <= Len(raw)
         /\ SubSeq(raw, i + 1, i + Len(u)) = u
         /\ \A k \in 1..Len(raw) : (k <= i \/ k > i + Len(u)) => IsSpace(raw[k])

FirstChars(s, n) == [j \in 1..(IF Len(s) < n THEN Len(s) ELSE n) |-> s[j]]

TextOf(v) == IF v = NoneVal THEN <<>> ELSE v

HasRichBody(e) == HasAttr(e, "content") /\ Len(e.content) >= 1

\* rich content body, then summary, then description
DescSource(e) ==
    IF HasRichBody(e)
    THEN (IF HasAttr(e.content[1], "value") THEN e.content[1].value ELSE <<>>)
    ELSE IF HasAttr(e, "summary") THEN TextOf(e.summary)
    ELSE IF HasAttr(e, "description") THEN TextOf(e.description)
    ELSE <<>>

FallbackProducedText == fallback_text # NoneVal

FallbackWon ==
    FallbackProducedText /\ Len(fallback_text) > Len(primary.locals.text)

\* the fallback stage was entered and ended by an exception
FallbackFailed ==
    /\ primary.finished
    /\ Len(primary.locals.text) < MIN_TEXT
    /\ ~FallbackProducedText

IsHttpImg(n) == n.tag = "img" /\ HasAttr(n, "src") /\ StartsWith(n.src, HTTP)

FirstHttpImage(nodes) ==
    LET c == SelectSeq(nodes, IsHttpImg)
    IN  IF Len(c) = 0 THEN <<>> ELSE c[1].src

HasVisibleChar(seg) == \E i \in 1..Len(seg) : ~IsSpace(seg[i])

\* <p>..</p> for each non-blank segment of t between blank lines, in order
ParagraphHtml(t) ==
    LET segs == SelectSeq(Split(t, PARA_SEP), HasVisibleChar)
    IN  Concat([i \in 1..Len(segs) |-> P_OPEN \o Strip(segs[i]) \o P_CLOSE])

SevenFields ==
    {"title", "authors", "publish_date", "top_image", "text", "html", "source_url"}

(***************************************************************************)
(* C1.  A 200 response of the feed endpoint has at most 50 items when      *)
(* limit > 50 and at most 20 items when limit is absent or an integer <= 0,*)
(* however many entries the feed has.                                      *)
(* Fails: a negative limit is a slice bound counted from the end.          *)
(***************************************************************************)
C1_LimitCaps ==
    (FeedDone /\ resp.status = 200) =>
        LET l == LimitArg(args)
            n == Len(resp.body.items)
        IN  /\ (args.limit # Absent /\ l.v > MAX_LIMIT) => n <= MAX_LIMIT
            /\ (args.limit = Absent \/ l.v <= 0) => n <= DEFAULT_LIMIT

(***************************************************************************)
(* C7.  A feed flagged malformed answers 200 with items built from the     *)
(* recovered entries when there is at least one, and 502 with an error     *)
(* field when there is none; a feed not flagged malformed never answers    *)
(* 502.                                                                    *)
(***************************************************************************)
C7_MalformedFeed ==
    (FeedDone /\ HasAttr(parsed, "bozo")) =>
        /\ (parsed.bozo /\ Len(parsed.entries) >= 1) =>
              /\ resp.status = 200
              /\ Len(resp.body.items) <= Len(parsed.entries)
              /\ \A i \in 1..Len(resp.body.items) :
                    resp.body.items[i] = Item(parsed.entries[i])
        /\ (parsed.bozo /\ Len(parsed.entries) = 0) =>
              resp.status = 502 /\ HasAttr(resp.body, "error")
        /\ ~parsed.bozo => resp.status # 502

C7_Witness ==
    /\ FeedDone /\ HasAttr(parsed, "bozo")
    /\ parsed.bozo /\ Len(parsed.entries) >= 1
    /\ resp.status = 200 /\ Len(resp.body.items) >= 1

(***************************************************************************)
(* C8.  Every item's description is the first 2000 characters of the first *)
(* present source among rich content body, summary, description; it never  *)
(* exceeds 2000 characters, and content wins over summary.                 *)
(***************************************************************************)
C8_Description ==
    (FeedDone /\ resp.status = 200) =>
        \A i \in 1..Len(resp.body.items) :
            /\ resp.body.items[i].description
                  = FirstChars(DescSource(parsed.entries[i]), DESC_MAX)
            /\ Len(resp.body.items[i].description) <= DESC_MAX

C8_Witness ==
    /\ FeedDone /\ resp.status = 200
    /\ \E i \in 1..Len(resp.body.items) :
          /\ HasRichBody(parsed.entries[i]) /\ HasAttr(parsed.entries[i], "summary")
          /\ Len(DescSource(parsed.entries[i])) > DESC_MAX
          /\ Len(resp.body.items[i].description) = DESC_MAX
          /\ resp.body.items[i].description # parsed.entries[i].summary

(***************************************************************************)
(* C2.  A request to the article endpoint whose url is absent, empty or    *)
(* whitespace only is answered 400 {"error": "url parameter is required"}  *)
(* and no outbound fetch is made: neither strategy is started.             *)
(* Fails: the import of line 101 comes before the check of the url; when   *)
(* it raises the answer is the framework's 500 (see C3).                   *)
(***************************************************************************)
C2_BlankUrl ==
    (pc \in ArticlePcs /\ BlankUrl(args)) =>
        /\ ArticleDone
        /\ resp = [status |-> 400, body |-> [error |-> URL_REQUIRED]]
        /\ fetches = <<>>
        /\ ~primary.finished /\ ~FallbackProducedText

\* what holds of a blank url: nothing is fetched and neither strategy starts,
\* and the answer is the 400 unless the import of line 101 raised
BlankUrlNeverFetches ==
    (pc \in ArticlePcs /\ BlankUrl(args)) =>
        /\ ArticleDone
        /\ fetches = <<>>
        /\ ~primary.finished /\ ~FallbackProducedText
        /\ resp.status # 500 => resp = [status |-> 400, body |-> [error |-> URL_REQUIRED]]

(***************************************************************************)
(* C3.  For a non-blank url, whatever the two strategies do (succeed or    *)
(* raise at any step), the article endpoint ends in a 200 response with    *)
(* the seven fields, source_url being the trimmed url; no failure of a     *)
(* strategy reaches the caller.  The handler has no loop: every statement  *)
(* moves pc forward, so having a next statement until the response is     *)
(* sent is termination.                                                    *)
(* Fails: the primary strategy's library is imported on line 101, outside  *)
(* the try of lines 123-136; when that import raises, the exception leaves *)
(* the handler.                                                            *)
(***************************************************************************)
C3_AlwaysAnswers ==
    /\ (ArticleDone /\ ~BlankUrl(args)) =>
          /\ resp.status = 200
          /\ DOMAIN resp.body = SevenFields
          /\ Trimmed(resp.body.source_url, args.url)
    \* until the response is sent the handler always has a next statement
    /\ pc \in ArticlePcs => (ArticleDone \/ ENABLED NextArticle)

\* what holds of a non-blank url: once line 101 has succeeded no failure of
\* either strategy reaches the caller
AnswersOnceImported ==
    /\ (ArticleDone /\ ~BlankUrl(args) /\ primary.finished) =>
          /\ resp.status = 200
          /\ DOMAIN resp.body = SevenFields
          /\ Trimmed(resp.body.source_url, args.url)
    /\ (ArticleDone /\ ~BlankUrl(args) /\ ~primary.finished) => resp.status = 500

(***************************************************************************)
(* C4.  Whenever the primary strategy fails, at whichever step of its      *)
(* download / parse / field-read sequence, the state it leaves is empty:   *)
(* text, title, authors, publish_date and top_image; and when the fallback *)
(* fails too, the response has text = "", html = "" and authors = [].      *)
(* Fails: the assignments made before the raising read are kept.           *)
(***************************************************************************)
C4_FailedPrimaryLeavesNothing ==
    /\ (primary.finished /\ primary.raised) => primary.locals = EmptyLocals
    /\ (ArticleDone /\ resp.status = 200 /\ primary.raised /\ FallbackFailed) =>
          /\ resp.body.text = <<>>
          /\ resp.body.html = <<>>
          /\ resp.body.authors = <<>>

(***************************************************************************)
(* C5.  The fallback starts only after the primary has finished and only   *)
(* if the text it left is shorter than 100 characters: at most two fetches *)
(* per call, at most one by each strategy and the primary's before the     *)
(* fallback's; the fallback's fetch is made only in that case; a primary   *)
(* text of 100 characters or more means exactly one fetch; no fetch is     *)
(* made twice.                                                             *)
(***************************************************************************)
C5_FetchDiscipline ==
    pc \in ArticlePcs =>
        /\ Len(fetches) <= 2
        /\ \A i \in 1..Len(fetches) :
              /\ fetches[i].stage \in {"primary", "fallback"}
              /\ fetches[i].url = url
              /\ \A j \in 1..Len(fetches) :
                    i < j => fetches[i].stage = "primary" /\ fetches[j].stage = "fallback"
        /\ ( \/ pc \in FallbackPcs
             \/ FallbackProducedText
             \/ \E i \in 1..Len(fetches) : fetches[i].stage = "fallback") =>
              primary.finished /\ Len(primary.locals.text) < MIN_TEXT
        /\ (primary.finished /\ Len(primary.locals.text) >= MIN_TEXT) =>
              /\ Len(fetches) = 1
              /\ fetches[1].stage = "primary"

C5_Witness ==
    /\ ArticleDone /\ Len(fetches) = 2
    /\ fetches[1].stage = "primary" /\ fetches[2].stage = "fallback"
    /\ ~primary.raised
    /\ Len(primary.locals.text) = MIN_TEXT - 1

(***************************************************************************)
(* C6.  A text produced by the fallback replaces the primary's text only   *)
(* if it is strictly longer; on a tie or a shorter text the result's text, *)
(* title, top_image and html are the primary's; a non-empty fallback text  *)
(* always replaces an empty primary text.                                  *)
(***************************************************************************)
C6_StrictlyLongerWins ==
    (pc \in {"respond", "article_done"} /\ FallbackProducedText) =>
        /\ IF Len(fallback_text) > Len(primary.locals.text)
           THEN text = fallback_text
           ELSE /\ text = primary.locals.text
                /\ title = primary.locals.title
                /\ top_image = primary.locals.top_image
                /\ pc = "respond" => html_content = <<>>
                /\ ArticleDone => resp.body.html = ParagraphHtml(primary.locals.text)
        /\ (fallback_text # <<>> /\ primary.locals.text = <<>>) => text = fallback_text

C6_Witness ==
    /\ ArticleDone /\ FallbackProducedText
    /\ Len(fallback_text) = Len(primary.locals.text)
    /\ fallback_text # primary.locals.text
    /\ resp.body.text = primary.locals.text

(***************************************************************************)
(* C9.  When the fallback text wins and the primary found no lead image,   *)
(* top_image is the source of the first image of the fallback HTML whose   *)
(* source begins with http, images with another source being skipped; a    *)
(* lead image found by the primary is left unchanged.                      *)
(* Fails: only the first image carrying a source is looked at.             *)
(***************************************************************************)
C9_FirstHttpImage ==
    (ArticleDone /\ resp.status = 200 /\ FallbackWon) =>
        IF primary.locals.top_image = <<>>
        THEN resp.body.top_image = FirstHttpImage(soup)
        ELSE resp.body.top_image = primary.locals.top_image

(***************************************************************************)
(* C10.  In every 200 response of the article endpoint html is empty       *)
(* exactly when text is empty: the html is the fallback's cleaned HTML     *)
(* when the fallback text won, otherwise the <p>..</p> of the non-blank    *)
(* segments of text; html is never set while text is empty.                *)
(***************************************************************************)
C10_HtmlIffText ==
    /\ (pc \in ArticlePcs /\ text = <<>>) => html_content = <<>>
    /\ (ArticleDone /\ resp.status = 200) =>
          /\ (resp.body.text = <<>>) <=> (resp.body.html = <<>>)
          /\ resp.body.html =
                IF FallbackWon THEN Serialize(soup) ELSE ParagraphHtml(resp.body.text)

C10_Witness ==
    /\ ArticleDone /\ resp.status = 200
    /\ primary.raised /\ primary.locals.text = <<>>
    /\ Len(fallback_text) >= MIN_TEXT
    /\ resp.body.text = fallback_text
    /\ resp.body.html = Serialize(soup) /\ resp.body.html # <<>>

====
